---- MODULE Spec2Model ----
(***************************************************************************)
(* The archive batch processor (archive/main.py): main() reads urls.txt,   *)
(* scans data/game_*.json for the URLs already archived, and for every     *)
(* remaining URL runs process_video: download_audio, transcribe,           *)
(* save_result, os.remove of the temporary audio file.                      *)
(*                                                                         *)
(* Strings are sequences of one-character strings, so that strip(),        *)
(* lower() and startswith() are computed and not assumed.                  *)
(***************************************************************************)
EXTENDS Integers, Sequences, FiniteSets, TLC

\* ------------------------------------------------------------- bounds
\* Lines in urls.txt, wall-clock seconds the model follows, invocations of main().
MaxLines == 2
MaxClock == 2
MaxRuns == 2
\* Characters in a line of the urls.txt files that load_urls is tried on.
MaxLineLen == 2
\* Segments in an engine result, and the latest second a segment names.
MaxSegments == 2
MaxTime == 1
\* Files in the data directories that load_processed_urls is tried on.
MaxFiles == 3

\* ------------------------------------------------------------ strings
Range(s) == {s[k] : k \in 1..Len(s)}

\* str.strip() with no argument removes leading and trailing whitespace
Whitespace == {" ", "\t", "\n", "\r"}

RECURSIVE LStrip(_)
LStrip(s) ==
    IF s # <<>> /\ Head(s) \in Whitespace THEN LStrip(Tail(s)) ELSE s

RECURSIVE RStrip(_)
RStrip(s) ==
    IF s # <<>> /\ s[Len(s)] \in Whitespace
    THEN RStrip(SubSeq(s, 1, Len(s) - 1))
    ELSE s

\* a strip() that leaves trailing whitespace, as lstrip() does
Strip_LeftOnly(s) == LStrip(s)

Strip(s) == RStrip(LStrip(s))

\* str.lower() on the ASCII letters
UpperChars ==
    <<"A","B","C","D","E","F","G","H","I","J","K","L","M",
      "N","O","P","Q","R","S","T","U","V","W","X","Y","Z">>
LowerChars ==
    <<"a","b","c","d","e","f","g","h","i","j","k","l","m",
      "n","o","p","q","r","s","t","u","v","w","x","y","z">>

LowerOf ==
    [c \in Range(UpperChars) |->
        LowerChars[CHOOSE k \in 1..Len(UpperChars) : UpperChars[k] = c]]

LowerChar(c) == IF c \in DOMAIN LowerOf THEN LowerOf[c] ELSE c

Lower(s) == [k \in 1..Len(s) |-> LowerChar(s[k])]

\* str.startswith('#')
StartsWithHash(s) == s # <<>> /\ Head(s) = "#"

\* ------------------------------------------------------ URL Source
\* urls.txt: absent, or a sequence of lines
NoFile == [exists |-> FALSE, lines |-> <<>>]

\* load_urls, the loop over the lines of the file
RECURSIVE ReadLines(_)
ReadLines(lines) ==
    IF lines = <<>> THEN <<>>
    ELSE LET line == Strip(Head(lines))
         IN  IF line # <<>> /\ ~StartsWithHash(line)
             THEN <<line>> \o ReadLines(Tail(lines))
             ELSE ReadLines(Tail(lines))

\* a load_urls that keeps comment lines
load_urls_KeepsComments(file) ==
    IF ~file.exists THEN <<>>
    ELSE SelectSeq([k \in 1..Len(file.lines) |-> Strip(file.lines[k])],
                   LAMBDA l : l # <<>>)

load_urls(file) ==
    IF ~file.exists THEN <<>> ELSE ReadLines(file.lines)

\* ------------------------------------------------- Progress Tracker
\* A file of the data directory: a complete record, a record cut short while
\* it was being written, or valid JSON that is no object.
Record(u) == [kind |-> "record", url |-> u]
Partial(u) == [kind |-> "partial", url |-> u]
NotAnObject == [kind |-> "array", url |-> <<>>]

\* a scan that takes the url of a file although json.load failed on it
ScanFile_TrustsPartial(content) ==
    IF content.url # <<>> THEN {content.url} ELSE {}

\* load_processed_urls, the body of the loop: json.load and data.get('url')
\* raise on a truncated file or a non-object and the file is skipped; an
\* empty or absent url is skipped by `if url`.
ScanFile(content) ==
    IF content.kind # "record" THEN {}
    ELSE IF content.url # <<>> THEN {content.url} ELSE {}

\* a scan that gives up, with nothing, at the first file it cannot use
load_processed_urls_StopsAtBadFile(dir) ==
    IF ~dir.exists THEN {}
    ELSE IF \E f \in DOMAIN dir.files : dir.files[f].kind # "record" THEN {}
    ELSE UNION {ScanFile(dir.files[f]) : f \in DOMAIN dir.files}

load_processed_urls(dir) ==
    IF ~dir.exists THEN {}
    ELSE UNION {ScanFile(dir.files[f]) : f \in DOMAIN dir.files}

\* urls_to_process built from the unfiltered list
FilterUnprocessed_NoFilter(us, processed) == us

\* urls_to_process = [url for url in urls if url not in processed_urls]
FilterUnprocessed(us, processed) ==
    SelectSeq(us, LAMBDA u : u \notin processed)

\* ------------------------------------------------ Transcription backend
FASTER_WHISPER == <<"f","a","s","t","e","r","_","w","h","i","s","p","e","r">>
MLX == <<"m","l","x">>

\* a factory that falls back to the default backend for an unknown name
get_transcriber_Fallback(name) ==
    IF Strip(Lower(name)) = MLX THEN "MlxWhisperBackend"
    ELSE "FasterWhisperBackend"

\* get_transcriber: the class the factory constructs, or the ValueError
get_transcriber(name) ==
    LET backend == Strip(Lower(name))
    IN  IF backend = FASTER_WHISPER THEN "FasterWhisperBackend"
        ELSE IF backend = MLX THEN "MlxWhisperBackend"
        ELSE "ValueError"

\* dict.get(key, default)
Get(d, key, default) == IF key \in DOMAIN d THEN d[key] ELSE default

\* FasterWhisperBackend.transcribe reads segment.start and segment.end as
\* attributes: the AttributeError of a segment without one leaves transcribe
FasterWhisperRaises(segs) ==
    \E n \in 1..Len(segs) : ~({"start", "end", "text"} \subseteq DOMAIN segs[n])

\* FasterWhisperBackend.transcribe, the loop over the engine's segments
FasterWhisperTranscribe(segs) ==
    [n \in 1..Len(segs) |->
        [start |-> segs[n]["start"],
         end |-> segs[n]["end"],
         text |-> Strip(segs[n]["text"])]]

\* MlxWhisperBackend.transcribe, the loop over result.get("segments", [])
MlxTranscribe(segs) ==
    [n \in 1..Len(segs) |->
        [start |-> Get(segs[n], "start", 0),
         end |-> Get(segs[n], "end", 0),
         text |-> Strip(Get(segs[n], "text", <<>>))]]

\* transcriber.transcribe(audio_path) of the backend the factory made
transcribe(backend, segs) ==
    IF backend = "MlxWhisperBackend" THEN MlxTranscribe(segs)
    ELSE FasterWhisperTranscribe(segs)

TranscribeRaises(backend, segs) ==
    backend = "FasterWhisperBackend" /\ FasterWhisperRaises(segs)

\* ---------------------------------------------------------------- state
VARIABLES
    urls_file,        \* URLS_FILE: urls.txt as it is on disk
    backend_type,     \* TRANSCRIPTION_BACKEND as configured
    segments,         \* what the engine finds in an audio file: its segments
    data_dir,         \* DATA_DIR: whether it exists, and game_<id>.json by <id>
    audio_file,       \* AUDIO_DIR: whether the audio file of the current item is on disk
    clock,            \* int(time.time())
    run,              \* invocations of main() so far
    pc,               \* where main() is: "exited", "init", "loop", "item"
    outcome,          \* how the last main() ended
    urls,             \* main: urls
    processed_urls,   \* main: processed_urls
    urls_to_process,  \* main: urls_to_process
    transcriber,      \* main: transcriber
    i,                \* main: the loop index of enumerate(…, start=1)
    success_count,    \* main: success_count
    failure_count,    \* main: failure_count
    item_pc,          \* process_video: the stage of the current item
    audio_path,       \* process_video: audio_path (<<>> is None)
    transcript_segments, \* process_video: transcript_segments
    game_id,          \* process_video: the <id> of game_id
    rm_tried,         \* os.remove(audio_path) was called for the current item
    attempted,        \* the URLs passed to process_video in this run
    scanned,          \* load_processed_urls was called in this run
    saves,            \* by <id>, the URLs of the save_result calls that returned
    saved_urls,       \* the URLs whose save_result returned in this run
    both_ok,          \* items of this run whose download and transcription succeeded
    failed_urls,      \* the URLs of the items of this run that ended Failed
    data_before,      \* data_dir when this run of main() began
    prev,             \* how the run before this one ended
    killed            \* the item in progress when the process was last killed

vars ==
    <<urls_file, backend_type, segments, transcript_segments, data_dir, audio_file, clock, run, pc, outcome,
      urls, processed_urls, urls_to_process, transcriber, i, success_count,
      failure_count, item_pc, audio_path, game_id, rm_tried, attempted,
      scanned, saves, saved_urls, both_ok, failed_urls, data_before, prev,
      killed>>

\* what stays as it is for the whole behaviour
config == <<urls_file, backend_type, segments>>
\* the locals of main() outside the loop
main_locals == <<urls, processed_urls, urls_to_process, data_before, prev, run, scanned>>

\* ---------------------------------------------------------------- inputs
\* The lines a urls.txt is made of: two URLs with whitespace before or after
\* them and, ahead of them in some files, a comment line and a blank line.
UrlLines ==
    { <<" ", "a">>,
      <<"b", " ">> }
Preamble == << <<"#", "a">>, <<" ">> >>

RECURSIVE SeqsUpTo(_, _)
SeqsUpTo(S, n) ==
    IF n = 0 THEN {<<>>}
    ELSE LET shorter == SeqsUpTo(S, n - 1)
         IN  shorter \cup {Append(s, x) : s \in shorter, x \in S}

\* urls.txt: absent, or at most MaxLines lines
UrlsFiles ==
    {NoFile}
    \cup {[exists |-> TRUE, lines |-> ls] : ls \in SeqsUpTo(UrlLines, MaxLines)}
    \cup {[exists |-> TRUE, lines |-> Preamble \o ls] :
             ls \in SeqsUpTo(UrlLines, MaxLines - Len(Preamble))}

\* TRANSCRIPTION_BACKEND values: the default, a spelling that needs lower()
\* and strip(), and a name that is no backend
Backends ==
    { FASTER_WHISPER,
      <<" ", "M", "L", "X">>,
      <<"w", "h", "i", "s", "p", "e", "r">> }

\* The archive a first run finds: no directory, or one with a record of a
\* URL that no urls.txt lists and with a file that is no JSON object, both
\* older than any id the runs produce.
NoDir == [exists |-> FALSE, files |-> <<>>]
OldDir ==
    [exists |-> TRUE,
     files |-> (0 :> Record(<<"c">>)) @@ (-1 :> NotAnObject)]
StartArchives == {NoDir, OldDir}

NoKill == [url |-> <<>>, record |-> "no kill", saved_before |-> FALSE]

Init ==
    /\ urls_file \in UrlsFiles
    /\ backend_type \in Backends
    /\ segments = <<>>
    /\ data_dir \in StartArchives
    /\ transcript_segments = <<>>
    /\ audio_file = FALSE
    /\ clock = 1
    /\ run = 0
    /\ pc = "exited"
    /\ outcome = "none"
    /\ urls = <<>>
    /\ processed_urls = {}
    /\ urls_to_process = <<>>
    /\ transcriber = "None"
    /\ i = 0
    /\ success_count = 0
    /\ failure_count = 0
    /\ item_pc = "none"
    /\ audio_path = <<>>
    /\ game_id = 0
    /\ rm_tried = FALSE
    /\ attempted = <<>>
    /\ scanned = FALSE
    /\ saves = <<>>
    /\ saved_urls = {}
    /\ both_ok = 0
    /\ failed_urls = {}
    /\ data_before = data_dir
    /\ prev = "none"
    /\ killed = NoKill

\* ------------------------------------------------------------------ main
\* How the run that just ended went: every item it had to do succeeded
\* ("clean"), it went through its items and some failed ("failed"), or it
\* ended early.
HowEnded ==
    IF outcome \in {"completed", "all_processed", "no_urls"}
    THEN IF failure_count = 0 THEN "clean" ELSE "failed"
    ELSE IF outcome = "none" THEN "none" ELSE "aborted"

\* main(), lines 236-294 up to the transcriber: load_urls; return when there
\* are none; load_processed_urls; urls_to_process; return when none remain.
MainStart ==
    /\ pc = "exited"
    /\ run < MaxRuns
    /\ run' = run + 1
    /\ prev' = HowEnded
    /\ data_before' = data_dir
    /\ urls' = load_urls(urls_file)
    /\ transcriber' = "None"
    /\ i' = 0
    /\ success_count' = 0
    /\ failure_count' = 0
    /\ item_pc' = "none"
    /\ audio_path' = <<>>
    /\ game_id' = 0
    /\ rm_tried' = FALSE
    /\ attempted' = <<>>
    /\ IF urls' = <<>>
       THEN /\ scanned' = FALSE
            /\ processed_urls' = {}
            /\ urls_to_process' = <<>>
            /\ pc' = "exited"
            /\ outcome' = "no_urls"
       ELSE /\ scanned' = TRUE
            /\ processed_urls' = load_processed_urls(data_dir)
            /\ urls_to_process' = FilterUnprocessed(urls', processed_urls')
            /\ IF urls_to_process' = <<>>
               THEN pc' = "exited" /\ outcome' = "all_processed"
               ELSE pc' = "init" /\ outcome' = "running"
    /\ saved_urls' = {}
    /\ both_ok' = 0
    /\ failed_urls' = {}
    /\ killed' = IF outcome = "killed" THEN killed ELSE NoKill
    /\ transcript_segments' = <<>>
    /\ UNCHANGED <<config, data_dir, audio_file, clock, saves>>

\* main(), lines 288-291: the factory returned a backend
InitTranscriber ==
    /\ pc = "init"
    /\ get_transcriber(backend_type) # "ValueError"
    /\ transcriber' = get_transcriber(backend_type)
    /\ pc' = "loop"
    /\ i' = 1
    /\ UNCHANGED <<config, transcript_segments,
                   data_dir, audio_file, clock, outcome, main_locals,
                   success_count, failure_count, item_pc, audio_path, game_id,
                   rm_tried, attempted, saves, saved_urls, both_ok, killed,
                   failed_urls>>

\* main(), lines 292-294: get_transcriber raised (the ValueError of an unknown
\* name, the RuntimeError off macOS, a failed import or model load)
InitTranscriberFail ==
    /\ pc = "init"
    /\ pc' = "exited"
    /\ outcome' = "init_failed"
    /\ UNCHANGED <<config, transcript_segments,
                   data_dir, audio_file, clock, main_locals, transcriber,
                   i, success_count, failure_count, item_pc, audio_path,
                   game_id, rm_tried, attempted, saves, saved_urls, both_ok, killed,
                   failed_urls>>

\* main(), lines 302-303 and process_video 148-157: the next URL is passed on
ProcessVideo ==
    /\ pc = "loop"
    /\ i <= Len(urls_to_process)
    /\ pc' = "item"
    /\ item_pc' = "Downloading"
    /\ attempted' = Append(attempted, urls_to_process[i])
    /\ audio_path' = <<>>
    /\ audio_file' = FALSE
    /\ rm_tried' = FALSE
    /\ transcript_segments' = <<>>
    /\ UNCHANGED <<config, data_dir, clock, outcome, main_locals, transcriber,
                   i, success_count, failure_count, game_id, saves, saved_urls,
                   both_ok, killed,
                   failed_urls>>

\* a loop that passes a failed item to process_video again
Tally_RetriesFailed ==
    /\ pc = "item"
    /\ item_pc \in {"Succeeded", "Failed"}
    /\ IF item_pc = "Succeeded"
       THEN success_count' = success_count + 1 /\ i' = i + 1
            /\ UNCHANGED failure_count
       ELSE failure_count' = failure_count + 1 /\ i' = i
            /\ UNCHANGED success_count
    /\ pc' = "loop"
    /\ UNCHANGED <<config, transcript_segments,
                   data_dir, audio_file, clock, outcome, main_locals,
                   transcriber, item_pc, audio_path, game_id, rm_tried,
                   attempted, saves, saved_urls, both_ok, killed,
                   failed_urls>>

\* main(), lines 304-307: the tally of what process_video returned
Tally ==
    /\ pc = "item"
    /\ item_pc \in {"Succeeded", "Failed"}
    /\ IF item_pc = "Succeeded"
       THEN success_count' = success_count + 1 /\ UNCHANGED failure_count
       ELSE failure_count' = failure_count + 1 /\ UNCHANGED success_count
    /\ i' = i + 1
    /\ pc' = "loop"
    /\ UNCHANGED <<config, transcript_segments,
                   data_dir, audio_file, clock, outcome, main_locals,
                   transcriber, item_pc, audio_path, game_id, rm_tried,
                   attempted, saves, saved_urls, both_ok, killed,
                   failed_urls>>

\* main(), lines 309-320: the loop is exhausted, the summary is printed
Summary ==
    /\ pc = "loop"
    /\ i > Len(urls_to_process)
    /\ pc' = "exited"
    /\ outcome' = "completed"
    /\ UNCHANGED <<config, transcript_segments,
                   data_dir, audio_file, clock, main_locals, transcriber,
                   i, success_count, failure_count, item_pc, audio_path,
                   game_id, rm_tried, attempted, saves, saved_urls, both_ok, killed,
                   failed_urls>>

\* --------------------------------------------------------- process_video
\* process_video's parameter url
url == urls_to_process[i]

InItem(stage) == pc = "item" /\ item_pc = stage

\* an uncaught exception leaves process_video and main()
Raise ==
    /\ pc' = "exited"
    /\ outcome' = "crashed"
    /\ item_pc' = "Raised"

\* line 158, download_audio returned (filepath, title): the audio file of
\* this source is on disk
DownloadOk ==
    /\ InItem("Downloading")
    /\ audio_file' = TRUE
    /\ audio_path' = url
    /\ item_pc' = "Transcribing"
    /\ UNCHANGED <<config, transcript_segments,
                   data_dir, clock, pc, outcome, main_locals,
                   transcriber, i, success_count, failure_count, game_id,
                   rm_tried, attempted, saves, saved_urls, both_ok, killed,
                   failed_urls>>

\* lines 158-162, download_audio returned (None, None): return False
DownloadFail ==
    /\ InItem("Downloading")
    /\ item_pc' = "Failed"
    /\ failed_urls' = failed_urls \cup {url}
    /\ UNCHANGED <<config, transcript_segments,
                   data_dir, audio_file, clock, pc, outcome, main_locals,
                   transcriber, i, success_count, failure_count, audio_path,
                   game_id, rm_tried, attempted, saves, saved_urls, both_ok, killed>>

\* downloader.py line 25: os.makedirs is outside the try and its OSError
\* leaves download_audio
DownloadRaise ==
    /\ InItem("Downloading")
    /\ Raise
    /\ UNCHANGED <<config, transcript_segments,
                   data_dir, audio_file, clock, main_locals, transcriber,
                   i, success_count, failure_count, audio_path, game_id,
                   rm_tried, attempted, saves, saved_urls, both_ok, killed,
                   failed_urls>>

\* a process_video that deletes the audio file as soon as it is transcribed
TranscribeOk_RemovesAudio ==
    /\ InItem("Transcribing")
    /\ ~TranscribeRaises(transcriber, segments)
    /\ transcript_segments' = transcribe(transcriber, segments)
    /\ rm_tried' = TRUE
    /\ audio_file' = FALSE
    /\ item_pc' = "Saving"
    /\ both_ok' = both_ok + 1
    /\ UNCHANGED <<config, data_dir, clock, pc, outcome, main_locals,
                   transcriber, i, success_count, failure_count, audio_path,
                   game_id, attempted, saves, saved_urls, killed,
                   failed_urls>>

\* lines 173-174 and 184-192: transcribe returned the segments
TranscribeOk ==
    /\ InItem("Transcribing")
    /\ ~TranscribeRaises(transcriber, segments)
    /\ transcript_segments' = transcribe(transcriber, segments)
    /\ item_pc' = "Saving"
    /\ both_ok' = both_ok + 1
    /\ UNCHANGED <<config, data_dir, audio_file, clock, pc, outcome, main_locals,
                   transcriber, i, success_count, failure_count, audio_path,
                   game_id, rm_tried, attempted, saves, saved_urls, killed,
                   failed_urls>>

\* lines 175-182: transcribe raised; os.remove is tried (it may fail, which
\* is ignored) and process_video returns False
TranscribeRaise ==
    /\ InItem("Transcribing")
    /\ rm_tried' = TRUE
    /\ audio_file' \in {FALSE, audio_file}
    /\ item_pc' = "Failed"
    /\ failed_urls' = failed_urls \cup {url}
    /\ UNCHANGED <<config, transcript_segments,
                   data_dir, clock, pc, outcome, main_locals,
                   transcriber, i, success_count, failure_count, audio_path,
                   game_id, attempted, saves, saved_urls, both_ok, killed>>

\* a save_result that names the file by the position of the item in the run
SaveId_ByIndex == i

\* line 195: game_id = f"game_{int(time.time())}", the name of the file
SaveId == clock

\* lines 195-128: the id is taken from the clock, the directory is made and
\* open(filepath, 'w') truncates or creates game_<id>.json
SaveOpen ==
    /\ InItem("Saving")
    /\ game_id' = SaveId
    /\ data_dir' = [exists |-> TRUE,
                    files |-> (SaveId :> Partial(url)) @@ data_dir.files]
    /\ item_pc' = "Writing"
    /\ UNCHANGED <<config, transcript_segments,
                   audio_file, clock, pc, outcome, main_locals,
                   transcriber, i, success_count, failure_count, audio_path,
                   rm_tried, attempted, saves, saved_urls, both_ok, killed,
                   failed_urls>>

\* lines 128-131: json.dump wrote the record, the file is closed and
\* save_result returns
SaveWrite ==
    /\ InItem("Writing")
    /\ data_dir' = [data_dir EXCEPT !.files[game_id] = Record(url)]
    /\ saves' = IF game_id \in DOMAIN saves
                THEN [saves EXCEPT ![game_id] = Append(@, url)]
                ELSE (game_id :> <<url>>) @@ saves
    /\ saved_urls' = saved_urls \cup {url}
    /\ item_pc' = "CleaningUp"
    /\ UNCHANGED <<config, transcript_segments,
                   audio_file, clock, pc, outcome, main_locals,
                   transcriber, i, success_count, failure_count, audio_path,
                   game_id, rm_tried, attempted, both_ok, killed,
                   failed_urls>>

\* lines 120-129: os.makedirs, open or the write raised an OSError; nothing
\* in process_video or main() catches it. What is on disk stays as it is.
SaveRaise ==
    /\ InItem("Saving") \/ InItem("Writing")
    /\ Raise
    /\ UNCHANGED <<config, transcript_segments,
                   data_dir, audio_file, clock, main_locals, transcriber,
                   i, success_count, failure_count, audio_path, game_id,
                   rm_tried, attempted, saves, saved_urls, both_ok, killed,
                   failed_urls>>

\* lines 214-228: os.remove is tried (a failure is printed, not raised) and
\* process_video returns True
Cleanup ==
    /\ InItem("CleaningUp")
    /\ rm_tried' = TRUE
    /\ audio_file' \in {FALSE, audio_file}
    /\ item_pc' = "Succeeded"
    /\ UNCHANGED <<config, transcript_segments,
                   data_dir, clock, pc, outcome, main_locals,
                   transcriber, i, success_count, failure_count, audio_path,
                   game_id, attempted, saves, saved_urls, both_ok, killed,
                   failed_urls>>

\* ------------------------------------------------------------ environment
InProgress == {"Downloading", "Transcribing", "Saving", "Writing", "CleaningUp"}

\* What a kill at a stage leaves of the record of the item in progress:
\* nothing before open(filepath, 'w'), a truncated file during the write,
\* the whole record once save_result has returned.
RecordAtKill(stage) ==
    IF stage = "CleaningUp" THEN "complete"
    ELSE IF stage = "Writing" THEN "partial"
    ELSE "none"

\* The process is killed while an item is in progress; the files stay as
\* they are at that moment, and item_pc keeps the stage of the kill.
Kill ==
    /\ pc = "item"
    /\ item_pc \in InProgress
    /\ killed' = [url |-> url, record |-> RecordAtKill(item_pc),
                  saved_before |-> IF item_pc = "CleaningUp"
                                   THEN FALSE
                                   ELSE url \in saved_urls]
    /\ pc' = "exited"
    /\ outcome' = "killed"
    /\ UNCHANGED <<config, transcript_segments,
                   data_dir, audio_file, clock, main_locals, transcriber,
                   i, success_count, failure_count, item_pc, audio_path,
                   game_id, rm_tried, attempted, saves, saved_urls, both_ok,
                   failed_urls>>

\* A second of wall-clock time passes. The clock is read only where game_id
\* is taken (line 195) and only names a file, so time is let pass there, and
\* a second in which no file was written is not told apart from the next.
Tick ==
    /\ InItem("Saving")
    /\ clock \in DOMAIN data_dir.files
    /\ clock < MaxClock
    /\ clock' = clock + 1
    /\ UNCHANGED <<config, transcript_segments,
                   data_dir, audio_file, run, pc, outcome, urls,
                   processed_urls, urls_to_process, transcriber, i,
                   success_count, failure_count, item_pc, audio_path, game_id,
                   rm_tried, attempted, scanned, saves, saved_urls, both_ok,
                   data_before, prev, killed,
                   failed_urls>>

Next ==
    \/ MainStart
    \/ InitTranscriber
    \/ InitTranscriberFail
    \/ ProcessVideo
    \/ Tally
    \/ Summary
    \/ DownloadOk
    \/ DownloadFail
    \/ DownloadRaise
    \/ TranscribeOk
    \/ TranscribeRaise
    \/ SaveOpen
    \/ SaveWrite
    \/ SaveRaise
    \/ Cleanup
    \/ Kill
    \/ Tick

Spec == Init /\ [][Next]_vars

\* ------------------------------------------------------------ properties
TypeOK ==
    /\ urls_file.exists \in BOOLEAN
    /\ Len(urls_file.lines) <= MaxLines
    /\ backend_type \in Backends
    /\ data_dir.exists \in BOOLEAN
    /\ audio_file \in BOOLEAN
    /\ clock \in 1..MaxClock
    /\ run \in 0..MaxRuns
    /\ pc \in {"exited", "init", "loop", "item"}
    /\ item_pc \in InProgress \cup {"none", "Succeeded", "Failed", "Raised"}
    /\ transcriber \in {"None", "FasterWhisperBackend", "MlxWhisperBackend"}
    /\ prev \in {"none", "clean", "failed", "aborted"}

Exited(how) == pc = "exited" /\ outcome = how

\* the record files of a directory
Records(dir) == {f \in DOMAIN dir.files : dir.files[f].kind = "record"}

\* every URL whose save_result has returned, in any run
EverSaved == UNION {Range(saves[id]) : id \in DOMAIN saves}

\* C1. Idempotence: a run that follows, on the same urls.txt, archive and
\* configuration, a run that went to its end attempts no item. Stated for
\* the first runs that leave nothing to retry: those in which every item
\* that was attempted succeeded.
Idempotence ==
    prev = "clean" => attempted = <<>>

\* C2. Durability: a URL whose save_result returned in an earlier run is in
\* the set load_processed_urls returned to this run, whatever was saved after
\* it.
Durability ==
    scanned => (EverSaved \ saved_urls) \subseteq processed_urls

\* C3. Skip of tracked URLs: the URLs passed to process_video are, in order,
\* the URLs of urls.txt that are not in the processed set computed when the
\* run began (all of them once the loop is through), and none of the
\* processed set is attempted or saved.
SkipTracked ==
    LET remaining == SelectSeq(urls, LAMBDA u : u \notin processed_urls)
    IN  /\ Len(attempted) <= Len(remaining)
        /\ attempted = SubSeq(remaining, 1, Len(attempted))
        /\ Exited("completed") => attempted = remaining
        /\ Range(attempted) \cap processed_urls = {}
        /\ saved_urls \cap processed_urls = {}

\* a run that skipped a tracked URL, attempted another and went through
SkipTrackedWitness ==
    /\ Exited("completed")
    /\ Range(urls) \cap processed_urls # {}
    /\ attempted # <<>>
    /\ Len(attempted) < Len(urls)

\* C4. Record ids are unique: no two save_result calls that returned, in one
\* run or across runs, wrote under the same id.
IdsUnique ==
    \A id \in DOMAIN saves : Len(saves[id]) <= 1

\* C5. Failure isolation and no retry: once the transcriber is there, the
\* items attempted so far are the first items of urls_to_process, each once
\* and in order, one per pass of the loop; a run that goes through has
\* attempted them all and counted each as succeeded or failed; and an item
\* that failed at download or transcription is followed by the tally of one
\* more failure and the next pass of the loop, not by the end of the run or
\* by the same item again.
FailureIsolationState ==
    pc \in {"loop", "item"} \/ Exited("completed") =>
        /\ transcriber # "None"
        /\ Len(attempted) = (IF pc = "item" THEN i ELSE i - 1)
        /\ Len(attempted) <= Len(urls_to_process)
        /\ attempted = SubSeq(urls_to_process, 1, Len(attempted))
        /\ success_count + failure_count = i - 1
        /\ Exited("completed") => attempted = urls_to_process

FailureIsolationStep ==
    (pc = "item" /\ item_pc = "Failed") =>
        /\ pc' = "loop"
        /\ i' = i + 1
        /\ failure_count' = failure_count + 1
        /\ success_count' = success_count
        /\ attempted' = attempted

FailureIsolation ==
    []FailureIsolationState /\ [][FailureIsolationStep]_vars

\* a run that went through although an earlier item failed at download or
\* transcription and a later one succeeded
FailureIsolationWitness ==
    /\ Exited("completed")
    /\ failure_count >= 1
    /\ success_count >= 1
    /\ item_pc = "Succeeded"

\* C6. Audio cleanup whatever Saving does: when process_video is left, by
\* return or by an exception, for an item whose download succeeded,
\* os.remove of its audio file has been tried.
CleanupAlways ==
    (item_pc \in {"Succeeded", "Failed", "Raised"} /\ audio_path # <<>>) => rm_tried

\* C7. Kill and resume. The run after a kill: the process was killed while
\* an item was in progress and main() has been started again.
RunAfterKill == killed.record # "no kill" /\ outcome # "killed"

\* as claimed: whatever the stage of the kill, the URL of the item is not in
\* the processed set of the next run and is to be processed again
KillResumeAnyStage ==
    RunAfterKill =>
        /\ killed.url \notin processed_urls
        /\ killed.url \in Range(urls_to_process)

\* as amended: a kill before the record file is completely written
\* (Downloading, Transcribing, Saving, part-way through the write) leaves no
\* record of the item, so unless an earlier line with the same URL was saved
\* in the killed run the URL is not in the processed set and is attempted
\* again; a kill after that (CleaningUp) leaves the record, and the URL is in
\* the processed set and is skipped.
KillResume ==
    /\ Exited("killed") => killed.record = RecordAtKill(item_pc)
    /\ RunAfterKill =>
        /\ (killed.record \in {"none", "partial"} /\ ~killed.saved_before) =>
               /\ killed.url \notin processed_urls
               /\ killed.url \in Range(urls_to_process)
               /\ Exited("completed") => killed.url \in Range(attempted)
        /\ killed.record = "complete" =>
               /\ killed.url \in processed_urls
               /\ killed.url \notin Range(urls_to_process)

\* killed part-way through the write: the next run went through and
\* attempted the item again
KillResumeWitness ==
    /\ RunAfterKill
    /\ killed.record = "partial"
    /\ Exited("completed")
    /\ killed.url \in Range(attempted)
    /\ killed.url \notin processed_urls

\* C8. The summary agrees with the archive: at the summary, success_count is
\* the number of items whose download and transcription both succeeded,
\* failure_count that of the others, and the archive holds success_count
\* more records than when the run began.
SummaryAgrees ==
    Exited("completed") =>
        /\ success_count = both_ok
        /\ failure_count = Len(attempted) - both_ok
        /\ Cardinality(Records(data_dir)) =
               Cardinality(Records(data_before)) + success_count

\* C9. An unknown backend aborts cleanly: with a backend name that is, lower
\* case and trimmed, neither faster_whisper nor mlx, no run enters the loop,
\* no item is passed to process_video or saved, and the archive is as the
\* run found it.
Recognised(name) == Strip(Lower(name)) \in {FASTER_WHISPER, MLX}

UnknownBackendAborts ==
    ~Recognised(backend_type) =>
        /\ pc \notin {"loop", "item"}
        /\ transcriber = "None"
        /\ attempted = <<>>
        /\ saved_urls = {}
        /\ saves = <<>>
        /\ data_dir = data_before
        /\ pc = "exited" /\ run > 0 =>
               outcome \in {"no_urls", "all_processed", "init_failed"}

\* URLs remained, the factory raised, and the archive that was there is intact
UnknownBackendWitness ==
    /\ ~Recognised(backend_type)
    /\ Exited("init_failed")
    /\ urls_to_process # <<>>
    /\ data_dir = OldDir

\* C10. An empty or missing input is a no-op: when urls.txt is absent or has
\* no line that is, trimmed, non-empty and not a comment, main() returns
\* without the scan, without a transcriber and with nothing attempted, saved
\* or changed in the archive.
NoUrlLine(file) ==
    \/ ~file.exists
    \/ \A k \in 1..Len(file.lines) :
          LET l == Strip(file.lines[k]) IN l = <<>> \/ Head(l) = "#"

EmptyInputNoOp ==
    NoUrlLine(urls_file) =>
        /\ pc = "exited"
        /\ outcome \in {"none", "no_urls"}
        /\ ~scanned
        /\ transcriber = "None"
        /\ attempted = <<>>
        /\ saves = <<>>
        /\ data_dir = data_before

\* main() has run on a urls.txt of a comment and a blank line, and returned
EmptyInputWitness ==
    /\ urls_file.exists
    /\ urls_file.lines # <<>>
    /\ NoUrlLine(urls_file)
    /\ Exited("no_urls")
    /\ data_dir = OldDir

\* ================================================================= C11
\* C11. Acquisition never raises: whatever the URL and the output directory,
\* download_audio returns (filepath, title) or (None, None), so no item is
\* left by an exception while it is still being downloaded.
AcquisitionNeverRaises ==
    ~(item_pc = "Raised" /\ audio_path = <<>>)

\* ================================================================= C12
\* main() before its first call: nothing loaded, no item, nothing saved
Idle ==
    /\ transcript_segments = <<>>
    /\ audio_file = FALSE
    /\ clock = 1
    /\ run = 0
    /\ pc = "exited"
    /\ outcome = "none"
    /\ urls = <<>>
    /\ processed_urls = {}
    /\ urls_to_process = <<>>
    /\ transcriber = "None"
    /\ i = 0
    /\ success_count = 0
    /\ failure_count = 0
    /\ item_pc = "none"
    /\ audio_path = <<>>
    /\ game_id = 0
    /\ rm_tried = FALSE
    /\ attempted = <<>>
    /\ scanned = FALSE
    /\ saves = <<>>
    /\ saved_urls = {}
    /\ both_ok = 0
    /\ failed_urls = {}
    /\ data_before = data_dir
    /\ prev = "none"
    /\ killed = NoKill

\* The lines load_urls is tried on: every string of at most MaxLineLen
\* characters out of a blank, the comment sign and a letter, and two longer
\* ones with whitespace inside the text.
LineChars == {" ", "#", "a"}
AnyLines ==
    SeqsUpTo(LineChars, MaxLineLen)
    \cup { <<"a", " ", "a">>, <<" ", "a", " ", "#", " ">> }
AnyUrlsFiles ==
    {NoFile}
    \cup {[exists |-> TRUE, lines |-> ls] : ls \in SeqsUpTo(AnyLines, MaxLines)}

\* load_urls on any urls.txt: main() is started once, on an empty archive
UrlSourceInit ==
    /\ urls_file \in AnyUrlsFiles
    /\ backend_type = FASTER_WHISPER
    /\ segments = <<>>
    /\ data_dir = NoDir
    /\ Idle

UrlSourceSpec == UrlSourceInit /\ [][MainStart]_vars

\* the first and the last character of a line that is no whitespace
HasText(line) == \E k \in 1..Len(line) : line[k] \notin Whitespace
FirstText(line) ==
    CHOOSE k \in 1..Len(line) :
        line[k] \notin Whitespace /\ \A j \in 1..(k - 1) : line[j] \in Whitespace
LastText(line) ==
    CHOOSE k \in 1..Len(line) :
        line[k] \notin Whitespace
        /\ \A j \in (k + 1)..Len(line) : line[j] \in Whitespace
Trimmed(line) == SubSeq(line, FirstText(line), LastText(line))

\* the positions of the lines that are URLs, and the n-th of them
UrlLineNumbers(lines) ==
    {k \in 1..Len(lines) :
        HasText(lines[k]) /\ lines[k][FirstText(lines[k])] # "#"}
NthOf(S, n) == CHOOSE k \in S : Cardinality({j \in S : j <= k}) = n

\* C12. URL Source result: once load_urls has returned, urls holds exactly
\* the lines of the file that have a non-whitespace character the first of
\* which is not `#`, each without its surrounding whitespace, in the order
\* of the file and as often as the file has them; no lines if there is no file.
UrlSourceResult ==
    run >= 1 =>
        LET lines == IF urls_file.exists THEN urls_file.lines ELSE <<>>
            kept == UrlLineNumbers(lines)
        IN  /\ Len(urls) = Cardinality(kept)
            /\ \A n \in 1..Len(urls) : urls[n] = Trimmed(lines[NthOf(kept, n)])

\* load_urls has returned the same URL twice, from two lines that differ in
\* their whitespace
UrlSourceWitness ==
    /\ run = 1
    /\ Len(urls) = 2
    /\ urls[1] = urls[2]
    /\ Len(urls_file.lines) = 2
    /\ urls_file.lines[1] # urls_file.lines[2]

\* ================================================================= C13
\* What the engine hands to a backend: at most MaxSegments segments, each
\* with a text and with or without a start and an end in 0..MaxTime.
EngineText == <<" ", "t", " ">>
EngineSegments ==
    UNION {{[key \in keys \cup {"text"} |->
                IF key = "text" THEN EngineText ELSE times[key]] :
               times \in [keys -> 0..MaxTime]} :
           keys \in SUBSET {"start", "end"}}
EngineResults == SeqsUpTo(EngineSegments, MaxSegments)

\* One URL to process, an empty archive, any engine result
TranscribeInit ==
    /\ urls_file = [exists |-> TRUE, lines |-> << <<"a">> >>]
    /\ backend_type \in Backends
    /\ segments \in EngineResults
    /\ data_dir = NoDir
    /\ Idle

TranscribeSpec == TranscribeInit /\ [][Next]_vars

\* The engine's own ordering: where it gives the values, starts do not
\* decrease from a segment to a later one and no segment ends before it starts
EngineInOrder(segs) ==
    /\ \A n \in 1..Len(segs) :
          {"start", "end"} \subseteq DOMAIN segs[n] =>
              segs[n]["start"] <= segs[n]["end"]
    /\ \A m, n \in 1..Len(segs) :
          (m < n /\ "start" \in DOMAIN segs[m] /\ "start" \in DOMAIN segs[n]) =>
              segs[m]["start"] <= segs[n]["start"]

TranscriptInOrder(t) ==
    /\ \A n \in 1..Len(t) : t[n].start <= t[n].end
    /\ \A m, n \in 1..Len(t) : m < n => t[m].start <= t[n].start

\* the record of the current item has been written with transcript_segments
\* as its transcript (main.py line 208)
RecordSaved == item_pc \in {"CleaningUp", "Succeeded"}

\* C13. Transcript ordering: in every record saved, with either backend, the
\* transcript has one segment per segment of the engine, in the engine's
\* order, also for segments the engine gave no start or end; and when the
\* engine kept its order the transcript's starts do not decrease and every
\* segment has start <= end.
TranscriptOrdering ==
    RecordSaved =>
        /\ Len(transcript_segments) = Len(segments)
        /\ \A n \in 1..Len(segments) :
              \A key \in DOMAIN segments[n] \ {"text"} :
                  transcript_segments[n][key] = segments[n][key]
        /\ EngineInOrder(segments) => TranscriptInOrder(transcript_segments)

\* ================================================================= C14
\* One step of an item in process_video, as the state machine has it: each
\* stage is left for the next one only ("Writing" is the second half of
\* Saving), Failed is entered from Downloading or Transcribing only,
\* CleaningUp ends in Succeeded whether or not the audio file is gone, and a
\* Succeeded item is counted as such and followed by the next pass of the loop.
ItemStep ==
    /\ InItem("Downloading") => item_pc' \in {"Downloading", "Transcribing", "Failed"}
    /\ InItem("Transcribing") => item_pc' \in {"Transcribing", "Saving", "Failed"}
    /\ InItem("Saving") => item_pc' \in {"Saving", "Writing"}
    /\ InItem("Writing") => item_pc' \in {"Writing", "CleaningUp"}
    /\ InItem("CleaningUp") => item_pc' \in {"CleaningUp", "Succeeded"}
    /\ (item_pc' = "Failed" /\ item_pc # "Failed") =>
           item_pc \in {"Downloading", "Transcribing"}
    /\ InItem("Succeeded") =>
           /\ success_count' = success_count + 1
           /\ failure_count' = failure_count
           /\ pc' = "loop"
           /\ i' = i + 1

\* C14. Per-item state machine: every attempted item goes from Downloading
\* through Transcribing, Saving and CleaningUp to Succeeded, or ends in
\* Failed, which is entered from Downloading or Transcribing only; an audio
\* file that could not be deleted in CleaningUp leaves the item succeeded,
\* and the batch goes on with the next item.
ItemStateMachine == [][ItemStep]_vars

\* ================================================================= C15
\* the record of the current item is on disk, whole
RecordOnDisk ==
    /\ url \in saved_urls
    /\ game_id \in DOMAIN data_dir.files
    /\ data_dir.files[game_id] = Record(url)

\* C15. Durability before cleanup: while save_result has not returned for an
\* item, its audio file is on disk and os.remove has not been called for it;
\* where the success path deletes it (CleaningUp) and once it has (Succeeded),
\* the record of the item is on disk.
SaveBeforeCleanup ==
    /\ item_pc \in {"Saving", "Writing"} => (audio_file /\ ~rm_tried)
    /\ (item_pc = "CleaningUp" \/ InItem("Succeeded")) => RecordOnDisk
    /\ (InItem("Succeeded") /\ ~audio_file) => rm_tried

\* the success path has deleted the audio file of an item
SaveBeforeCleanupWitness ==
    /\ InItem("Succeeded")
    /\ rm_tried
    /\ ~audio_file
    /\ RecordOnDisk

\* ================================================================= C16
\* main() is started: the step that computes the processed set of a new run
NewRun == pc = "exited" /\ run' = run + 1

\* u is not in the processed set of the run that starts and, if urls.txt
\* lists it, is among the items that run is to process
RetriedBy(u) ==
    /\ u \notin processed_urls'
    /\ u \in Range(urls') => u \in Range(urls_to_process')

\* C16. Failed items leave no record and are retried by the next run: the
\* URL of every item that ended Failed is not in the processed set of the next
\* run and, if urls.txt still lists it, is among the items of that run.
FailedRetried ==
    [][NewRun => \A u \in failed_urls : RetriedBy(u)]_vars

\* What holds of a Failed item. While an item is downloaded or transcribed,
\* and when it has ended Failed, no save_result call of this run was for it:
\* if its URL was saved in this run, the item of an earlier line was.
FailedWritesNothing ==
    (pc = "item" /\ item_pc \in {"Downloading", "Transcribing", "Failed"}) =>
        /\ url \in saved_urls => \E j \in 1..(i - 1) : urls_to_process[j] = url
        /\ Cardinality(saved_urls) <= both_ok
        /\ item_pc = "Failed" => url \in failed_urls

\* The step into Failed leaves the archive as it is, and the URLs that
\* failed and were not saved through another line are retried.
FailedRetriedUnlessSaved ==
    /\ []FailedWritesNothing
    /\ [][(item_pc' = "Failed" /\ item_pc # "Failed") =>
              (data_dir' = data_dir /\ saves' = saves)]_vars
    /\ [][NewRun => \A u \in failed_urls \ saved_urls : RetriedBy(u)]_vars

\* ================================================================= C17
\* What a game_<id>.json can hold: the record of a URL, a record with an
\* empty or no url, a record cut short, JSON that is no object.
AnyContents ==
    {Record(<<"a">>), Record(<<"b">>), Record(<<>>), Partial(<<"a">>), NotAnObject}

\* The data directories: none, or one with any of the files game_1.json to
\* game_<MaxFiles>.json, each with any content
AnyArchives ==
    {NoDir}
    \cup UNION {{[exists |-> TRUE, files |-> fs] : fs \in [ids -> AnyContents]} :
                ids \in SUBSET (1..MaxFiles)}

\* load_processed_urls on any archive: main() is started with one URL to do
TrackerInit ==
    /\ urls_file = [exists |-> TRUE, lines |-> << <<"a">> >>]
    /\ backend_type = FASTER_WHISPER
    /\ segments = <<>>
    /\ data_dir \in AnyArchives
    /\ Idle

TrackerSpec == TrackerInit /\ [][MainStart]_vars

\* the files json.load gives an object for: the well-formed records
WellFormed(dir) == {f \in DOMAIN dir.files : dir.files[f].kind = "record"}

\* C17. Progress Tracker tolerance: whatever the data directory holds, the
\* scan ends with a set; it is empty when there is no directory, and
\* otherwise it is exactly the non-empty url values of the well-formed
\* record files, the other files being skipped.
TrackerTolerance ==
    scanned =>
        /\ ~data_before.exists => processed_urls = {}
        /\ data_before.exists =>
              /\ \A f \in WellFormed(data_before) :
                    data_before.files[f].url # <<>> =>
                        data_before.files[f].url \in processed_urls
              /\ \A u \in processed_urls :
                    /\ u # <<>>
                    /\ \E f \in WellFormed(data_before) :
                          data_before.files[f].url = u

\* the scan went over a record with a URL, a record without one and a file
\* that json.load or data.get fails on, and returned the one URL
TrackerWitness ==
    /\ scanned
    /\ data_before.exists
    /\ \E f \in DOMAIN data_before.files : data_before.files[f].kind # "record"
    /\ \E f \in DOMAIN data_before.files : data_before.files[f] = Record(<<>>)
    /\ Cardinality(processed_urls) = 1

\* ================================================================= C18
\* the save_result calls that returned for a URL, in this run or before
SavesOf(u) ==
    {p \in (DOMAIN saves) \X (1..(MaxLines * MaxRuns)) :
        p[2] <= Len(saves[p[1]]) /\ saves[p[1]][p[2]] = u}

\* C18. Deduplication by the Progress Tracker: after any sequence of runs that
\* went through, no two records of the archive have the same URL and no URL
\* was saved more than once, also when urls.txt lists a URL on several lines.
DedupByTracker ==
    (Exited("completed") /\ prev \in {"none", "clean", "failed"}) =>
        /\ \A f, g \in Records(data_dir) :
              data_dir.files[f].url = data_dir.files[g].url => f = g
        /\ \A u \in EverSaved : Cardinality(SavesOf(u)) <= 1

\* ================================================================= C19
\* process_video's parameters, as main() passes them (line 303): index = i,
\* total = len(urls), already_processed = len(processed_urls)
total == Len(urls)
already_processed == Cardinality(processed_urls)

\* line 148: the position shown for the item
k == already_processed + i

\* C19. Progress position stays in range: for every item attempted, the
\* position shown is at least 1 and at most the number of URLs in urls.txt,
\* also when the archive has records of URLs that urls.txt does not list.
PositionInRange ==
    pc = "item" => (1 <= k /\ k <= total)

====
